---- MODULE Spec2Model ----
(***************************************************************************)
(* Model of the timeloom client: the multi-tag filter functions of         *)
(* lib/tagFiltering.ts and the EmailsList component (paging, cache,        *)
(* selection, load supersession).                                          *)
(***************************************************************************)
EXTENDS Integers, Sequences, FiniteSets, TLC

(***************************************************************************)
(* Part 1: the tag filter functions (lib/tagFiltering.ts)                  *)
(***************************************************************************)

\* The items of one user, in the order the reader returns them.
ItemOrder == <<"A", "B", "C">>
Items == {"A", "B", "C"}
Tags == {"t1", "t2"}
FilterModes == {"any", "all"}
\* How the store hands back the join rows of one item:
\*   embedded    one row per item, its matching tag ids embedded in the row
\*   flatByItem  one row per association, the rows of an item adjacent
\*   interleaved one row per association, rows of different items interleaved
Shapes == {"embedded", "flatByItem", "interleaved"}
TagOrder == <<"t1", "t2">>

VARIABLES
    fAssoc,     \* the join table: item -> set of attached tag ids
    fSel,       \* tagIds, the selection
    fMode,      \* FilterMode
    fShape,     \* shape of the join rows returned by the store
    fTagsRead,  \* whether the read of calendar_event_tags succeeds
    fStage,     \* "input" | "emails" | "events" | "cards" | "page"
    fOut        \* result of the last filter call (sequence of item ids)

filterVars == <<fAssoc, fSel, fMode, fShape, fTagsRead, fStage, fOut>>

\* state of the EmailsList component and of the requests it has in flight
VARIABLES
    route,          \* "emails" (EmailsList mounted) | "auth" | "away"
    url,            \* the URL search parameters
    activeTab,
    pageToken, nextPageToken, prevPageTokens,
    allEmails,      \* sequence of [id, starred]
    emailCache,     \* id -> [present, starred]
    isLoading, error,
    selectedEmails, selectAll,
    refs,           \* pageTokenRef, activeFilterNameRef, searchQueryRef, filterTagsParamRef
    load,           \* the loadData call whose signal is not aborted
    stale,          \* aborted loadData calls whose pending request will be rejected
    starOps,        \* toggleStar calls whose markEmailStarred will throw
    abandoned,      \* the view left the paged mode on a non-initial page
    last            \* history: the kind of the step taken last

listVars == <<route, url, activeTab, pageToken, nextPageToken, prevPageTokens,
              allEmails, emailCache, isLoading, error, selectedEmails, selectAll,
              refs, load, stale, starOps, abandoned, last>>

\* one call of a function of the data layer (lib/supabaseClient, lib/tagFiltering,
\* lib/emailHelpers) or of a form handler, with the responses it will receive
VARIABLES
    args,       \* the call's arguments and the responses of the services
    called,     \* the function called ("none" before the call)
    outcome     \* what the call returned or threw

callVars == <<args, called, outcome>>

\* one email of the list with the star and tag writes issued for it
VARIABLES
    email,      \* [cache, list]: its entry in emailCache and its row in allEmails
    remote,     \* its STARRED label in Gmail and its rows in email_tags
    writes,     \* the toggles whose remote write is pending, oldest first
    ended       \* history: the write that ended last

writeVars == <<email, remote, writes, ended>>

\* one custom card and one timeline card of the store, and the write path
\* that is running
VARIABLES
    cardStore,  \* the rows of the card and of its tag associations
    cardOp,     \* the write path in progress and its next store call
    cardReport  \* what the write path reported to its caller

cardVars == <<cardStore, cardOp, cardReport>>

\* the tag tables of the store for one message, and the tag list of the sidebar
VARIABLES
    tagStore,   \* tags, the emails row, email_tags and removed_email_tags_log
    sidebar     \* pin tags: the Sidebar's list, the store's rows, inserts in flight

tagVars == <<tagStore, sidebar>>

vars == <<filterVars, listVars, callVars, writeVars, cardVars, tagVars>>

Range(s) == {s[i] : i \in 1..Len(s)}

RECURSIVE Concat(_)
Concat(ss) == IF ss = <<>> THEN <<>> ELSE Head(ss) \o Concat(Tail(ss))

\* rows of the inner join `<items>!inner(tag_id)` restricted by
\* .in('<join>.tag_id', tagIds): only items with a matching association
InnerJoinRows(assoc, tagIds, shape) ==
    LET hit(i) == assoc[i] \cap tagIds
        embeddedRow(k) == IF hit(ItemOrder[k]) = {} THEN <<>>
                          ELSE << [id |-> ItemOrder[k], tags |-> hit(ItemOrder[k])] >>
        pair(k, t) == IF TagOrder[t] \in hit(ItemOrder[k])
                      THEN << [id |-> ItemOrder[k], tags |-> {TagOrder[t]}] >>
                      ELSE <<>>
        byItem(k) == Concat([t \in 1..Len(TagOrder) |-> pair(k, t)])
        byTag(t) == Concat([k \in 1..Len(ItemOrder) |-> pair(k, t)])
    IN  CASE shape = "embedded" -> Concat([k \in 1..Len(ItemOrder) |-> embeddedRow(k)])
          [] shape = "flatByItem" -> Concat([k \in 1..Len(ItemOrder) |-> byItem(k)])
          [] OTHER -> Concat([t \in 1..Len(TagOrder) |-> byTag(t)])

\* a forEach that decides each row from the tag ids of that row alone
RECURSIVE MatchingEmailsRowByRow(_, _, _, _, _)
MatchingEmailsRowByRow(rows, k, tagIds, mode, acc) ==
    IF k > Len(rows) THEN acc
    ELSE LET id == rows[k].id
             next == IF id \in Range(acc) THEN acc
                     ELSE IF mode = "all"
                          THEN IF \A t \in tagIds : t \in rows[k].tags
                               THEN Append(acc, id) ELSE acc
                          ELSE Append(acc, id)
         IN  MatchingEmailsRowByRow(rows, k + 1, tagIds, mode, next)

\* Step 2 of fetchEmailsByTags: the forEach over emailsData filling
\* matchingEmailsMap; the result is the map's keys in insertion order.
RECURSIVE MatchingEmails(_, _, _, _, _)
MatchingEmails(rows, k, tagIds, mode, acc) ==
    IF k > Len(rows) THEN acc
    ELSE LET id == rows[k].id
             allTagsForThisEmail ==
                 UNION {rows[j].tags : j \in {j \in 1..Len(rows) : rows[j].id = id}}
             next == IF id \in Range(acc) THEN acc
                     ELSE IF mode = "all"
                          THEN IF \A t \in tagIds : t \in allTagsForThisEmail
                               THEN Append(acc, id) ELSE acc
                          ELSE Append(acc, id)
         IN  MatchingEmails(rows, k + 1, tagIds, mode, next)

fetchEmailsByTags(assoc, tagIds, mode, shape) ==
    IF tagIds = {} THEN <<>>
    ELSE LET emailsData == InnerJoinRows(assoc, tagIds, shape)
         IN  IF emailsData = <<>> THEN <<>>
             ELSE MatchingEmails(emailsData, 1, tagIds, mode, <<>>)

\* fetchCalendarEvents, "Fetch and Merge Tags": the tags of every event from
\* fetchCalendarEventTagsForEventIds, or [] for every event when that fails
fetchCalendarEvents(assoc, tagsRead) == [i \in Items |-> IF tagsRead THEN assoc[i] ELSE {}]

RECURSIVE SelectIds(_, _, _)
SelectIds(ids, k, kept) ==
    IF k > Len(ids) THEN <<>>
    ELSE (IF ids[k] \in kept THEN <<ids[k]>> ELSE <<>>) \o SelectIds(ids, k + 1, kept)

fetchCalendarEventsByTags(assoc, tagIds, mode, tagsRead) ==
    IF tagIds = {} THEN <<>>
    ELSE LET allRelevantEvents == fetchCalendarEvents(assoc, tagsRead)
             keep(i) == IF mode = "all"
                        THEN \A t \in tagIds : t \in allRelevantEvents[i]
                        ELSE \E t \in tagIds : t \in allRelevantEvents[i]
         IN  SelectIds(ItemOrder, 1, {i \in Items : keep(i)})

RECURSIVE UniqueCards(_, _, _)
UniqueCards(rows, k, acc) ==
    IF k > Len(rows) THEN acc
    ELSE UniqueCards(rows, k + 1,
                     IF rows[k].id \in Range(acc) THEN acc ELSE Append(acc, rows[k].id))

RECURSIVE FilteredCards(_, _, _)
FilteredCards(rows, k, tagIds) ==
    IF k > Len(rows) THEN <<>>
    ELSE (IF \A t \in tagIds : t \in rows[k].tags THEN <<rows[k].id>> ELSE <<>>)
         \o FilteredCards(rows, k + 1, tagIds)

fetchTimelineCustomCardsByTags(assoc, tagIds, mode, shape) ==
    IF tagIds = {} THEN <<>>
    ELSE LET cardsData == InnerJoinRows(assoc, tagIds, shape)
         IN  IF mode = "all" THEN FilteredCards(cardsData, 1, tagIds)
             ELSE UniqueCards(cardsData, 1, <<>>)

\* the tag filter of the timeline page (filteredCustomCards)
filteredCustomCards(assoc, tagIds, mode) ==
    LET keep(i) == IF tagIds = {} THEN TRUE
                   ELSE IF mode = "any" THEN \E t \in tagIds : t \in assoc[i]
                   ELSE \A t \in tagIds : t \in assoc[i]
    IN  SelectIds(ItemOrder, 1, {i \in Items : keep(i)})

FilterInit ==
    /\ fAssoc = [i \in Items |-> {}]
    /\ fSel = {}
    /\ fMode = "any"
    /\ fShape = "embedded"
    /\ fTagsRead = TRUE
    /\ fStage = "input"
    /\ fOut = <<>>

\* a caller's store content, selection and mode
FilterInputs ==
    /\ fAssoc \in [Items -> SUBSET Tags]
    /\ fSel \in SUBSET Tags
    /\ fMode \in FilterModes
    /\ fShape \in Shapes
    /\ fTagsRead \in BOOLEAN
    /\ fStage = "input"
    /\ fOut = <<>>

CallFetchEmailsByTags ==
    /\ fStage = "input"
    /\ fOut' = fetchEmailsByTags(fAssoc, fSel, fMode, fShape)
    /\ fStage' = "emails"
    /\ UNCHANGED <<fAssoc, fSel, fMode, fShape, fTagsRead>>
    /\ UNCHANGED <<listVars, callVars, writeVars, cardVars, tagVars>>

CallFetchCalendarEventsByTags ==
    /\ fStage = "input"
    /\ fOut' = fetchCalendarEventsByTags(fAssoc, fSel, fMode, fTagsRead)
    /\ fStage' = "events"
    /\ UNCHANGED <<fAssoc, fSel, fMode, fShape, fTagsRead>>
    /\ UNCHANGED <<listVars, callVars, writeVars, cardVars, tagVars>>

CallFetchTimelineCustomCardsByTags ==
    /\ fStage = "input"
    /\ fOut' = fetchTimelineCustomCardsByTags(fAssoc, fSel, fMode, fShape)
    /\ fStage' = "cards"
    /\ UNCHANGED <<fAssoc, fSel, fMode, fShape, fTagsRead>>
    /\ UNCHANGED <<listVars, callVars, writeVars, cardVars, tagVars>>

CallFilteredCustomCards ==
    /\ fStage = "input"
    /\ fOut' = filteredCustomCards(fAssoc, fSel, fMode)
    /\ fStage' = "page"
    /\ UNCHANGED <<fAssoc, fSel, fMode, fShape, fTagsRead>>
    /\ UNCHANGED <<listVars, callVars, writeVars, cardVars, tagVars>>

FilterNext ==
    \/ CallFetchEmailsByTags
    \/ CallFetchCalendarEventsByTags
    \/ CallFetchTimelineCustomCardsByTags
    \/ CallFilteredCustomCards

(***************************************************************************)
(* Part 2: the EmailsList component (paging, cache, selection, loads)      *)
(***************************************************************************)

\* JavaScript values of the page-token state
Undefined == "undefined"
Null == "null"
EmptyString == ""
Falsy(tok) == tok \in {Undefined, Null, EmptyString}

\* --- the remote services, as far as the component observes them ---------
\* Gmail message list: the mailbox holds A and B; the standard listing has two
\* pages, the IMPORTANT listing one; a token of another listing is rejected
StandardListing(tok) ==
    IF Falsy(tok) THEN [ok |-> TRUE, messages |-> <<"A">>, nextPageToken |-> "p2"]
    ELSE IF tok = "p2" THEN [ok |-> TRUE, messages |-> <<"B">>, nextPageToken |-> Undefined]
    ELSE [ok |-> FALSE, messages |-> <<>>, nextPageToken |-> Undefined]

ImportantListing(tok) ==
    IF Falsy(tok) THEN [ok |-> TRUE, messages |-> <<"B">>, nextPageToken |-> Undefined]
    ELSE [ok |-> FALSE, messages |-> <<>>, nextPageToken |-> Undefined]

\* Gmail search: q1 matches both messages, q0 none
SearchListing(q) == IF q = "q1" THEN <<"A", "B">> ELSE <<>>

\* the store's email_tags rows and the tag named by the legacy URL parameter
StoreAssoc == [i \in Items |-> CASE i = "A" -> {"t1"}
                                 [] i = "B" -> {"t1", "t2"}
                                 [] OTHER -> {}]
TagIdOfName(name) == IF name = "work" THEN "t1" ELSE "none"
\* rpc get_email_ids_by_tag
EmailIdsByTagName(name) ==
    LET keep(i) == TagIdOfName(name) \in StoreAssoc[i]
    IN  SelectIds(ItemOrder, 1, {i \in Items : keep(i)})

\* filterTagsParam.split(',')
SplitTags(p) == CASE p = "t1" -> {"t1"}
                  [] p = "t1,t2" -> {"t1", "t2"}
                  [] OTHER -> {}

\* --- URL search parameters ------------------------------------------------
Url(q, tag, tags, mode) == [q |-> q, tag |-> tag, tags |-> tags, mode |-> mode]
PlainUrl == Url(Null, Null, Null, Null)
Urls == { PlainUrl,
          Url("q1", Null, Null, Null),
          Url("q0", Null, Null, Null),
          Url(Null, "work", Null, Null),
          Url(Null, Null, "t1,t2", "any"),
          Url(Null, Null, "t1,t2", "all") }

filterModeParam(u) == IF u.mode = Null THEN "any" ELSE u.mode

\* the branch loadData takes: new multi-tag filter, search, legacy tag, paged
ViewOf(u) == IF u.tags # Null THEN "multi"
             ELSE IF u.q # Null THEN "search"
             ELSE IF u.tag # Null THEN "tag"
             ELSE "paged"

Tabs == {"all", "starred", "important"}

\* --- model bounds ---------------------------------------------------------
MaxPending == 1    \* requests of superseded loads and star writes still to be rejected


AbsentItem == [present |-> FALSE, starred |-> FALSE]
EmptyCache == [i \in Items |-> AbsentItem]
CacheKeys(c) == {i \in Items : c[i].present}

NoLoad == [stage |-> "none", view |-> "paged", pageToken |-> Undefined,
           tab |-> "all", u |-> PlainUrl, cache |-> EmptyCache,
           ids |-> <<>>, toFetch |-> {}, fetched |-> {},
           changed |-> FALSE, refresh |-> FALSE]

\* what the pending call of a load can throw
Throws(stage, view) ==
    CASE stage = "list" /\ view \in {"paged", "search"} -> {"expired", "other"}
      [] stage = "list" /\ view = "tag" -> {"other"}
      [] stage = "byTagsQuery" -> {"other"}
      [] stage \in {"byTagsDetails", "details"} -> {"expired"}
      [] OTHER -> {}

Errors == {"expired", "other"}
NoStale == [e \in Errors |-> 0]
StaleCount(b) == b["expired"] + b["other"]

\* the history variable tells apart the steps the properties speak about:
\* a load that completes ("commit") and a return to the paged view from a
\* view that was entered on a non-initial page ("return"), and a page-list
\* fetch of the load in flight that is rejected ("listFail")
Observed == {"commit", "return", "listFail"}
Step(op) == [op |-> IF op \in Observed THEN op ELSE "other", changed |-> FALSE,
             refresh |-> FALSE]

\* filteredEmails: the tab filter applied to allEmails
RECURSIVE StarredOnly(_)
StarredOnly(es) ==
    IF es = <<>> THEN <<>>
    ELSE (IF Head(es).starred THEN <<Head(es)>> ELSE <<>>) \o StarredOnly(Tail(es))

filteredEmails(all, tab) == IF tab = "starred" THEN StarredOnly(all) ELSE all

IdsOf(es) == {es[k].id : k \in 1..Len(es)}

\* the effect on [selectedEmails, filteredEmails] that keeps selectAll
SelectAllEffect(sel, all, tab) ==
    /\ Len(filteredEmails(all, tab)) > 0
    /\ Cardinality(sel) = Len(filteredEmails(all, tab))

\* --- the data-fetch effect ------------------------------------------------
\* the component state the effect reads and writes before its first await
Snapshot ==
    [url |-> url, activeTab |-> activeTab, pageToken |-> pageToken,
     nextPageToken |-> nextPageToken, prevPageTokens |-> prevPageTokens,
     emailCache |-> emailCache, isLoading |-> isLoading, error |-> error,
     refs |-> refs, load |-> load, stale |-> stale]

FreshRefs(u) == [pageToken |-> Undefined, activeFilterName |-> u.tag,
                 searchQuery |-> u.q, filterTagsParam |-> u.tags]

FreshSnapshot(u) ==
    [url |-> u, activeTab |-> "all", pageToken |-> Undefined,
     nextPageToken |-> Null, prevPageTokens |-> <<>>,
     emailCache |-> EmptyCache, isLoading |-> FALSE, error |-> Null,
     refs |-> FreshRefs(u), load |-> NoLoad, stale |-> NoStale]

\* the cleanup function: fetchController.abort(). The request the load awaits
\* is not cancelled: when it succeeds the load ends at `if (signal.aborted)
\* return`, when it is rejected the catch block of the load will run
AbortLoad(s) ==
    {s.stale} \cup {[s.stale EXCEPT ![e] = @ + 1] : e \in Throws(s.load.stage, s.load.view)}

isPaging(s) == s.pageToken # s.refs.pageToken /\ s.pageToken # Undefined

\* whether page token, legacy tag filter, search query or multi-tag parameter
\* differ from those of the previous run of the effect
ParamsChanged(s) ==
    \/ s.pageToken # s.refs.pageToken
    \/ s.url.tag # s.refs.activeFilterName
    \/ s.url.q # s.refs.searchQuery
    \/ s.url.tags # s.refs.filterTagsParam

\* cursors left as they are
KeepCursors(s) == s

\* setNextPageToken(null); setPrevPageTokens([])
ResetCursors(s) == [s EXCEPT !.nextPageToken = Null, !.prevPageTokens = <<>>]

\* a branch of a non-paged view that leaves the page token as it is
NonPagedResetKeepsToken(s) == ResetCursors(s)

\* the first statements of the multi-tag, search and legacy tag branches:
\* setPageToken(null); setNextPageToken(null); setPrevPageTokens([])
NonPagedReset(s) == ResetCursors([s EXCEPT !.pageToken = Null])

\* one run of the effect: cleanup of the previous run, loadData up to its
\* first await, then the update of the refs
EffectOnce(s, aborted) ==
    LET view == ViewOf(s.url)
        s1 == [s EXCEPT !.stale = aborted, !.isLoading = TRUE, !.error = Null]
        s2 == IF isPaging(s) THEN s1 ELSE ResetCursors(s1)
        s3 == IF view # "paged" THEN NonPagedReset(s2) ELSE s2
        started == [NoLoad EXCEPT !.stage = IF view = "multi" THEN "byTagsQuery" ELSE "list",
                                  !.view = view,
                                  !.pageToken = s.pageToken,
                                  !.tab = s.activeTab,
                                  !.u = s.url,
                                  !.cache = s.emailCache,
                                  !.changed = ParamsChanged(s)]
    IN  [s3 EXCEPT !.load = started,
                   !.refs = [pageToken |-> s.pageToken,
                             activeFilterName |-> s.url.tag,
                             searchQuery |-> s.url.q,
                             filterTagsParam |-> s.url.tags]]

\* the effect runs again when a dependency it set itself (pageToken) changed
RunEffect(s) ==
    UNION { LET s1 == EffectOnce(s, a1)
            IN  IF s1.pageToken # s.pageToken
                THEN {EffectOnce(s1, a2) : a2 \in AbortLoad(s1)}
                ELSE {s1}
            : a1 \in AbortLoad(s) }

\* requests that will be rejected after the call that issued them was left
Pending(s) == StaleCount(s.stale) + Cardinality(starOps)

Install(s) ==
    /\ url' = s.url
    /\ activeTab' = s.activeTab
    /\ pageToken' = s.pageToken
    /\ nextPageToken' = s.nextPageToken
    /\ prevPageTokens' = s.prevPageTokens
    /\ emailCache' = s.emailCache
    /\ isLoading' = s.isLoading
    /\ error' = s.error
    /\ refs' = s.refs
    /\ load' = s.load
    /\ stale' = s.stale

Mounted == route = "emails"

ListInit ==
    /\ route = "away"
    /\ url = PlainUrl
    /\ activeTab = "all"
    /\ pageToken = Undefined
    /\ nextPageToken = Null
    /\ prevPageTokens = <<>>
    /\ allEmails = <<>>
    /\ emailCache = EmptyCache
    /\ isLoading = FALSE
    /\ error = Null
    /\ selectedEmails = {}
    /\ selectAll = FALSE
    /\ refs = FreshRefs(PlainUrl)
    /\ load = NoLoad
    /\ stale = NoStale
    /\ starOps = {}
    /\ abandoned = FALSE
    /\ last = Step("init")

\* the router renders EmailsList (index route of /emails) for some URL
MountEmailsList ==
    /\ ~Mounted
    /\ \E u \in Urls :
         \E s \in RunEffect(FreshSnapshot(u)) :
             /\ StaleCount(s.stale) <= MaxPending
             /\ Install(s)
    /\ route' = "emails"
    /\ allEmails' = <<>>
    /\ selectedEmails' = {}
    /\ selectAll' = FALSE
    /\ abandoned' = FALSE
    /\ last' = Step("mount")
    /\ UNCHANGED <<starOps>>
    /\ UNCHANGED <<filterVars, callVars, writeVars, cardVars, tagVars>>

\* the component state is dropped when the route leaves the list
Discard(to) ==
    /\ route' = to
    /\ Install(FreshSnapshot(PlainUrl))
    /\ allEmails' = <<>>
    /\ selectedEmails' = {}
    /\ selectAll' = FALSE
    /\ abandoned' = FALSE
    /\ starOps' = {}

\* a thread is opened, the user signs out or another page is visited
UnmountEmailsList ==
    /\ Mounted
    /\ Discard("away")
    /\ last' = Step("unmount")
    /\ UNCHANGED <<filterVars, callVars, writeVars, cardVars, tagVars>>

\* navigation inside /emails: header search, Clear, sidebar tag, header filter
Navigate ==
    /\ Mounted
    /\ \E u \in Urls \ {url} :
         LET leaving == ViewOf(url) = "paged" /\ ViewOf(u) # "paged"
             back == ViewOf(url) # "paged" /\ ViewOf(u) = "paged"
         IN  /\ \E s \in RunEffect([Snapshot EXCEPT !.url = u]) :
                  /\ Pending(s) <= MaxPending
                  /\ Install(s)
             /\ abandoned' = IF ViewOf(u) = "paged" THEN FALSE
                             ELSE IF leaving THEN ~Falsy(pageToken) ELSE abandoned
             /\ last' = Step(IF back /\ abandoned THEN "return" ELSE "navigate")
    /\ UNCHANGED <<route, allEmails, selectedEmails, selectAll, starOps>>
    /\ UNCHANGED <<filterVars, callVars, writeVars, cardVars, tagVars>>

\* onTabChange={setActiveTab}; the triggers are disabled while loading
SetActiveTab ==
    /\ Mounted /\ ~isLoading
    /\ \E t \in Tabs \ {activeTab} :
         \E s \in RunEffect([Snapshot EXCEPT !.activeTab = t]) :
             /\ Pending(s) <= MaxPending
             /\ Install(s)
    /\ selectAll' = SelectAllEffect(selectedEmails, allEmails, activeTab')
    /\ last' = Step("tab")
    /\ UNCHANGED <<route, allEmails, selectedEmails, starOps, abandoned>>
    /\ UNCHANGED <<filterVars, callVars, writeVars, cardVars, tagVars>>

MaxPrev == 1

goToNextPage ==
    /\ Mounted /\ ViewOf(url) = "paged" /\ ~isLoading
    /\ ~Falsy(nextPageToken)
    /\ Len(prevPageTokens) < MaxPrev
    /\ LET s0 == [Snapshot EXCEPT
                    !.prevPageTokens = Append(prevPageTokens,
                          IF Falsy(pageToken) THEN EmptyString ELSE pageToken),
                    !.pageToken = nextPageToken]
       IN  \E s \in (IF s0.pageToken # pageToken THEN RunEffect(s0) ELSE {s0}) :
             /\ Pending(s) <= MaxPending
             /\ Install(s)
    /\ last' = Step("next")
    /\ UNCHANGED <<route, allEmails, selectedEmails, selectAll, starOps,
                   abandoned>>
    /\ UNCHANGED <<filterVars, callVars, writeVars, cardVars, tagVars>>

goToPrevPage ==
    /\ Mounted /\ ViewOf(url) = "paged" /\ ~isLoading
    /\ Len(prevPageTokens) > 0
    /\ LET lastToken == prevPageTokens[Len(prevPageTokens)]
           s0 == [Snapshot EXCEPT
                    !.prevPageTokens = SubSeq(prevPageTokens, 1, Len(prevPageTokens) - 1),
                    !.pageToken = lastToken]
       IN  \E s \in (IF s0.pageToken # pageToken THEN RunEffect(s0) ELSE {s0}) :
             /\ Pending(s) <= MaxPending
             /\ Install(s)
    /\ last' = Step("prev")
    /\ UNCHANGED <<route, allEmails, selectedEmails, selectAll, starOps,
                   abandoned>>
    /\ UNCHANGED <<filterVars, callVars, writeVars, cardVars, tagVars>>

\* a refresh that leaves the cache as it is
RefreshStateKeepsCache(s) == [s EXCEPT !.pageToken = Null, !.error = Null]

\* setEmailCache(new Map()); setPageToken(null); setError(null)
RefreshState(s) ==
    [s EXCEPT !.emailCache = EmptyCache, !.pageToken = Null, !.error = Null]

\* the refreshEmails event; refreshKey changes, so the effect always runs
triggerRefresh ==
    /\ Mounted /\ ViewOf(url) = "paged" /\ ~isLoading
    /\ \E s \in RunEffect(RefreshState(Snapshot)) :
         /\ Pending(s) <= MaxPending
         /\ Install([s EXCEPT !.load.refresh = TRUE])
    /\ last' = Step("refresh")
    /\ UNCHANGED <<route, allEmails, selectedEmails, selectAll, starOps,
                   abandoned>>
    /\ UNCHANGED <<filterVars, callVars, writeVars, cardVars, tagVars>>

\* --- loadData after its awaits -------------------------------------------
Live == Mounted /\ load.stage # "none"

\* the check that guards setSelectedEmails([]) / setSelectAll(false)
SelectionMustClearAlways(l, r) == TRUE

SelectionMustClear(l, r) ==
    \/ l.pageToken # r.pageToken
    \/ l.u.tag # r.activeFilterName
    \/ l.u.q # r.searchQuery
    \/ l.u.tags # r.filterTagsParam

Overlay(cache, entries, ids) == [i \in Items |-> IF i \in ids THEN entries[i] ELSE cache[i]]

RECURSIVE ProcessedEmails(_, _)
ProcessedEmails(ids, cache) ==
    IF ids = <<>> THEN <<>>
    ELSE (IF cache[Head(ids)].present
          THEN << [id |-> Head(ids), starred |-> cache[Head(ids)].starred] >>
          ELSE <<>>) \o ProcessedEmails(Tail(ids), cache)

\* the ids whose cache entries a load builds itself: the messages it fetched,
\* in the multi-tag view every email fetchEmailsByTags returned
Written(l) == IF l.view = "multi" THEN Range(l.ids) ELSE l.fetched

\* the ids a load hands to fetchFullEmailDetails
Requested(l) == IF l.stage = "byTagsDetails" THEN Range(l.ids) ELSE l.toFetch

\* a finally block that never clears the flag
finallyKeepsLoading(aborted) == isLoading

\* finally { if (!signal.aborted) setIsLoading(false) }: the value of isLoading
\* after the block
finallyBlock(aborted) == IF aborted THEN isLoading ELSE FALSE

\* "Update State (Common)", the selection check and the finally block
Commit(l, result, finalCache, written) ==
    /\ allEmails' = result
    /\ emailCache' = finalCache
    /\ selectedEmails' = IF SelectionMustClear(l, refs) THEN {} ELSE selectedEmails
    /\ selectAll' = SelectAllEffect(selectedEmails', result, activeTab)
    /\ isLoading' = finallyBlock(FALSE)
    /\ load' = NoLoad
    /\ last' = [Step("commit") EXCEPT !.changed = l.changed, !.refresh = l.refresh]

\* the list call of the search, legacy tag and paged views returns
LoadListOk ==
    /\ Live /\ load.stage = "list"
    /\ LET listing == IF load.tab = "important" THEN ImportantListing(load.pageToken)
                      ELSE StandardListing(load.pageToken)
           ids == CASE load.view = "search" -> SearchListing(load.u.q)
                    [] load.view = "tag" -> EmailIdsByTagName(load.u.tag)
                    [] OTHER -> listing.messages
           idsToFetchDetails == Range(ids) \ CacheKeys(load.cache)
       IN  /\ load.view = "paged" => listing.ok
           /\ nextPageToken' = IF load.view # "paged" THEN nextPageToken
                               ELSE IF Falsy(listing.nextPageToken) THEN Null
                               ELSE listing.nextPageToken
           /\ IF ids = <<>> /\ load.view # "paged"
              THEN \* setAllEmails([]); setIsLoading(false); return
                   /\ allEmails' = <<>>
                   /\ selectAll' = FALSE
                   /\ isLoading' = FALSE
                   /\ load' = NoLoad
                   /\ last' = Step("emptyResult")
                   /\ UNCHANGED <<emailCache, selectedEmails>>
              ELSE IF ids = <<>>
              THEN Commit(load, <<>>, load.cache, {})
              ELSE /\ load' = [load EXCEPT
                                 !.stage = IF idsToFetchDetails # {} THEN "details" ELSE "supa",
                                 !.ids = ids,
                                 !.toFetch = idsToFetchDetails]
                   /\ last' = Step("listed")
                   /\ UNCHANGED <<allEmails, emailCache, selectedEmails, selectAll, isLoading>>
    /\ UNCHANGED <<route, url, activeTab, pageToken, prevPageTokens, error, refs, stale,
                   starOps, abandoned>>
    /\ UNCHANGED <<filterVars, callVars, writeVars, cardVars, tagVars>>

\* fetchFullEmailDetails returns: a message whose request failed is dropped
LoadDetailsOk ==
    /\ Live /\ load.stage = "details"
    /\ \E got \in SUBSET load.toFetch :
         load' = [load EXCEPT !.stage = "supa", !.fetched = got]
    /\ last' = Step("details")
    /\ UNCHANGED <<route, url, activeTab, pageToken, nextPageToken, prevPageTokens,
                   allEmails, emailCache, isLoading, error, selectedEmails, selectAll,
                   refs, stale, starOps, abandoned>>
    /\ UNCHANGED <<filterVars, callVars, writeVars, cardVars, tagVars>>

\* the store query of fetchEmailsByTags returns; for a non-empty match the
\* function goes on to fetchFullEmailDetails(matchingEmailIds)
LoadByTagsQueryOk ==
    /\ Live /\ load.stage = "byTagsQuery"
    /\ LET matching == fetchEmailsByTags(StoreAssoc, SplitTags(load.u.tags),
                                         filterModeParam(load.u), "embedded")
       IN  IF matching = <<>>
           THEN /\ Commit(load, <<>>, load.cache, {})
           ELSE /\ load' = [load EXCEPT !.stage = "byTagsDetails", !.ids = matching]
                /\ last' = Step("listed")
                /\ UNCHANGED <<allEmails, emailCache, selectedEmails, selectAll, isLoading>>
    /\ UNCHANGED <<route, url, activeTab, pageToken, nextPageToken, prevPageTokens,
                   error, refs, stale, starOps, abandoned>>
    /\ UNCHANGED <<filterVars, callVars, writeVars, cardVars, tagVars>>

\* fetchEmailsByTags returns its merged list; loadData asks the store for tags
LoadByTagsDetailsOk ==
    /\ Live /\ load.stage = "byTagsDetails"
    /\ load' = [load EXCEPT !.stage = "supa"]
    /\ last' = Step("details")
    /\ UNCHANGED <<route, url, activeTab, pageToken, nextPageToken, prevPageTokens,
                   allEmails, emailCache, isLoading, error, selectedEmails, selectAll,
                   refs, stale, starOps, abandoned>>
    /\ UNCHANGED <<filterVars, callVars, writeVars, cardVars, tagVars>>

\* fetchSupabaseEmailData returns (an empty array when the store fails), then
\* the merge and the state update
LoadSupaOk ==
    /\ Live /\ load.stage = "supa"
    /\ LET written == Written(load)
       IN  \E isStarred \in SUBSET written :
             LET fresh == [i \in Items |->
                             [present |-> TRUE,
                              starred |-> i \in isStarred]]
                 finalCache == Overlay(load.cache, fresh, written)
             IN  Commit(load, ProcessedEmails(load.ids, finalCache), finalCache, written)
    /\ UNCHANGED <<route, url, activeTab, pageToken, nextPageToken, prevPageTokens,
                   error, refs, stale, starOps, abandoned>>
    /\ UNCHANGED <<filterVars, callVars, writeVars, cardVars, tagVars>>

\* a catch block that sends every error to the sign-in route
NavigatesAlways(err) == TRUE

\* err.message === 'Google API token expired'
Navigates(err) == err = "expired"

\* a catch block after which the cache is empty
CaughtDropsCache(s, err) == [FreshSnapshot(PlainUrl) EXCEPT !.error = err]

\* the component state at the time the route changes: the catch block called
\* setError and did not call setEmailCache
Caught(s, err) ==
    [FreshSnapshot(PlainUrl) EXCEPT !.error = err, !.emailCache = s.emailCache]

\* the catch block: setError, setAllEmails([]), nav('/auth') on token expiry;
\* the route change drops the component
Catch(err, op) ==
    IF Navigates(err)
    THEN /\ route' = "auth"
         /\ Install(Caught(Snapshot, err))
         /\ allEmails' = <<>>
         /\ selectedEmails' = {}
         /\ selectAll' = FALSE
         /\ abandoned' = FALSE
         /\ starOps' = {}
         /\ last' = Step(op)
    ELSE /\ error' = err
         /\ allEmails' = <<>>
         /\ selectAll' = FALSE
         /\ UNCHANGED <<route, url, activeTab, pageToken, nextPageToken, prevPageTokens,
                        emailCache, selectedEmails, refs, starOps, abandoned>>

LoadFails ==
    /\ Live
    /\ \E err \in Throws(load.stage, load.view) :
       \E op \in {IF load.stage = "list" /\ load.view = "paged"
                   THEN "listFail" ELSE "fail"} :
         /\ Catch(err, op)
         /\ IF Navigates(err) THEN TRUE
            ELSE /\ isLoading' = finallyBlock(FALSE)
                 /\ load' = NoLoad
                 /\ stale' = stale
                 /\ last' = Step(op)
    /\ UNCHANGED <<filterVars, callVars, writeVars, cardVars, tagVars>>

\* the pending request of an aborted loadData is rejected: the catch block
\* runs, the finally block skips setIsLoading
StaleFails ==
    /\ Mounted
    /\ \E err \in Errors :
         /\ stale[err] > 0
         /\ Catch(err, "staleFail")
         /\ IF Navigates(err) THEN TRUE
            ELSE /\ stale' = [stale EXCEPT ![err] = @ - 1]
                 /\ isLoading' = finallyBlock(TRUE)
                 /\ UNCHANGED load
                 /\ last' = Step("staleFail")
    /\ UNCHANGED <<filterVars, callVars, writeVars, cardVars, tagVars>>

\* --- handlers of the rendered list ---------------------------------------
\* the rows are rendered only when !isLoading && !error
Rendered(i) ==
    /\ Mounted /\ ~isLoading /\ error = Null
    /\ i \in IdsOf(filteredEmails(allEmails, activeTab))

RECURSIVE SetStarred(_, _, _)
SetStarred(es, i, b) ==
    IF es = <<>> THEN <<>>
    ELSE << IF Head(es).id = i THEN [Head(es) EXCEPT !.starred = b] ELSE Head(es) >>
         \o SetStarred(Tail(es), i, b)

CacheSetStarred(cache, i, b) ==
    IF cache[i].present THEN [cache EXCEPT ![i].starred = b] ELSE cache

\* toggleStar: the optimistic update; when markEmailStarred returns (true or
\* false) nothing more is written, when it will throw the call stays pending
toggleStar ==
    /\ \E i \in Items : \E throws \in BOOLEAN :
         /\ Rendered(i)
         /\ emailCache[i].present
         /\ throws => StaleCount(stale) + Cardinality(starOps) < MaxPending
         /\ LET newStarredState == ~emailCache[i].starred
            IN  /\ emailCache' = CacheSetStarred(emailCache, i, newStarredState)
                /\ allEmails' = SetStarred(allEmails, i, newStarredState)
                /\ starOps' = IF throws
                              THEN starOps \cup {[id |-> i, starred |-> newStarredState]}
                              ELSE starOps
    /\ selectAll' = SelectAllEffect(selectedEmails, allEmails', activeTab)
    /\ last' = Step("toggleStar")
    /\ UNCHANGED <<route, url, activeTab, pageToken, nextPageToken, prevPageTokens,
                   isLoading, error, selectedEmails, refs, load, stale, abandoned>>
    /\ UNCHANGED <<filterVars, callVars, writeVars, cardVars, tagVars>>

\* markEmailStarred throws (no provider token in the session): the catch
\* block of toggleStar writes !newStarredState
StarWriteThrows ==
    /\ Mounted
    /\ \E o \in starOps :
         /\ starOps' = starOps \ {o}
         /\ emailCache' = CacheSetStarred(emailCache, o.id, ~o.starred)
         /\ allEmails' = SetStarred(allEmails, o.id, ~o.starred)
    /\ selectAll' = SelectAllEffect(selectedEmails, allEmails', activeTab)
    /\ last' = Step("starThrow")
    /\ UNCHANGED <<route, url, activeTab, pageToken, nextPageToken, prevPageTokens,
                   isLoading, error, selectedEmails, refs, load, stale, abandoned>>
    /\ UNCHANGED <<filterVars, callVars, writeVars, cardVars, tagVars>>

toggleEmailSelection ==
    /\ \E i \in Items :
         /\ Rendered(i)
         /\ selectedEmails' = IF i \in selectedEmails THEN selectedEmails \ {i}
                              ELSE selectedEmails \cup {i}
    /\ selectAll' = SelectAllEffect(selectedEmails', allEmails, activeTab)
    /\ last' = Step("select")
    /\ UNCHANGED <<route, url, activeTab, pageToken, nextPageToken, prevPageTokens,
                   allEmails, emailCache, isLoading, error, refs, load, stale,
                   starOps, abandoned>>
    /\ UNCHANGED <<filterVars, callVars, writeVars, cardVars, tagVars>>

\* the toolbar checkbox: disabled while loading or without emails
handleSelectAll ==
    /\ Mounted /\ ~isLoading
    /\ Len(filteredEmails(allEmails, activeTab)) > 0
    /\ LET checked == ~selectAll
       IN  selectedEmails' = IF checked THEN IdsOf(filteredEmails(allEmails, activeTab))
                             ELSE {}
    /\ selectAll' = SelectAllEffect(selectedEmails', allEmails, activeTab)
    /\ last' = Step("selectAll")
    /\ UNCHANGED <<route, url, activeTab, pageToken, nextPageToken, prevPageTokens,
                   allEmails, emailCache, isLoading, error, refs, load, stale,
                   starOps, abandoned>>
    /\ UNCHANGED <<filterVars, callVars, writeVars, cardVars, tagVars>>

ListNext ==
    \/ MountEmailsList
    \/ UnmountEmailsList
    \/ Navigate
    \/ SetActiveTab
    \/ goToNextPage
    \/ goToPrevPage
    \/ triggerRefresh
    \/ LoadListOk
    \/ LoadDetailsOk
    \/ LoadByTagsQueryOk
    \/ LoadByTagsDetailsOk
    \/ LoadSupaOk
    \/ LoadFails
    \/ StaleFails
    \/ toggleStar
    \/ StarWriteThrows
    \/ toggleEmailSelection
    \/ handleSelectAll

(***************************************************************************)
(* Part 3: the Gmail and Calendar endpoint wrappers                        *)
(***************************************************************************)

NoCall == [kind |-> "none"]

CallInit == args = NoCall /\ called = "none" /\ outcome = NoCall

\* response.status of a request: ok, the two statuses the wrappers test for,
\* and one other failure
HttpStatuses == {"200", "401", "403", "500"}

CredentialStatuses == {"401", "403"}

Throw(err) ==
    [kind |-> "throws", error |-> err, ok |-> FALSE, items |-> <<>>, requests |-> <<>>]

Return(ok, items) ==
    [kind |-> "returns", error |-> Null, ok |-> ok, items |-> items, requests |-> <<>>]

\* the services contacted before the rest of the call ran
Issued(reqs, r) == [r EXCEPT !.requests = reqs \o @]

\* the listing a 200 response carries
Listing == <<"A", "B", "C">>

\* getGmailAccessToken / getCalendarAccessToken: reads the session and throws
\* when it has no provider token
TokenThrows(a) == ~a.token

\* one list request: 401/403 -> token expired, other failure -> other error
ListRequest(a) ==
    Issued(<<"session">>,
        IF TokenThrows(a) THEN Throw("expired")
        ELSE Issued(<<"gmail">>,
                 IF a.http \in CredentialStatuses THEN Throw("expired")
                 ELSE IF a.http # "200" THEN Throw("other")
                 ELSE Return(TRUE, Listing)))

fetchEmailMetadataPage(a) == ListRequest(a)

\* the query is tested after the access token has been read
searchGmailMessages(a) ==
    IF TokenThrows(a) THEN Issued(<<"session">>, Throw("expired"))
    ELSE IF a.query = EmptyString THEN Issued(<<"session">>, Throw("other"))
    ELSE ListRequest(a)

\* one request per id; a failed request, whatever its status, becomes null
\* and is filtered out of the result
fetchFullEmailDetails(a) ==
    Issued(<<"session">>,
        IF TokenThrows(a) THEN Throw("expired")
        ELSE IF a.ids = <<>> THEN Return(TRUE, <<>>)
        ELSE Issued(<<"gmail">>,
                 Return(TRUE, SelectSeq(a.ids, LAMBDA i : a.detail[i] = "200"))))

\* every failure inside the try block, the 401/403 throw included, ends in
\* "return false"
markEmailStarred(a) ==
    Issued(<<"session">>,
        IF TokenThrows(a) THEN Throw("expired")
        ELSE Issued(<<"gmail">>,
                 IF a.http # "200" THEN Return(FALSE, <<>>)
                 ELSE Issued(<<"store">>, Return(TRUE, <<>>))))

\* the events of the range; the tag merge cannot fail the call
fetchCalendarEventsRequest(a) ==
    Issued(<<"session">>,
        IF TokenThrows(a) THEN Throw("expired")
        ELSE IF ~a.userId THEN Throw("other")
        ELSE Issued(<<"calendar">>,
                 IF a.http \in CredentialStatuses THEN Throw("expired")
                 ELSE IF a.http # "200" THEN Throw("other")
                 ELSE Issued(<<"store">>, Return(TRUE, Listing))))

\* every failure inside the try block, the 401/403 throw included, ends in
\* "return []"
fetchRecentCalendarActivity(a) ==
    Issued(<<"session">>,
        IF TokenThrows(a) THEN Throw("expired")
        ELSE Issued(<<"calendar">>,
                 IF a.http # "200" THEN Return(TRUE, <<>>)
                 ELSE Return(TRUE, Listing)))

\* the cards query of the store; a store error is thrown inside the try block
\* and the catch block returns []
fetchTimelineCardsWithTags(a) ==
    IF ~a.userId THEN Return(TRUE, <<>>)
    ELSE Issued(<<"store">>,
             IF a.storeError THEN Return(TRUE, <<>>)
             ELSE Return(TRUE, Listing))

IdLists == {<<>>, <<"A">>, <<"B", "A">>, <<"A", "B", "C">>}

EndpointInputs ==
    /\ args \in [kind : {"endpoint"}, token : BOOLEAN, userId : BOOLEAN,
                 http : HttpStatuses, storeError : BOOLEAN,
                 query : {EmptyString, "q1"},
                 ids : IdLists, detail : [Items -> {"200", "401", "500"}]]
    /\ called = "none" /\ outcome = NoCall

CallFetchEmailMetadataPage ==
    /\ called = "none"
    /\ called' = "fetchEmailMetadataPage" /\ outcome' = fetchEmailMetadataPage(args)
    /\ UNCHANGED <<args, filterVars, listVars, writeVars, cardVars, tagVars>>

CallSearchGmailMessages ==
    /\ called = "none"
    /\ called' = "searchGmailMessages" /\ outcome' = searchGmailMessages(args)
    /\ UNCHANGED <<args, filterVars, listVars, writeVars, cardVars, tagVars>>

CallFetchFullEmailDetails ==
    /\ called = "none"
    /\ called' = "fetchFullEmailDetails" /\ outcome' = fetchFullEmailDetails(args)
    /\ UNCHANGED <<args, filterVars, listVars, writeVars, cardVars, tagVars>>

CallMarkEmailStarred ==
    /\ called = "none"
    /\ called' = "markEmailStarred" /\ outcome' = markEmailStarred(args)
    /\ UNCHANGED <<args, filterVars, listVars, writeVars, cardVars, tagVars>>

CallFetchCalendarEvents ==
    /\ called = "none"
    /\ called' = "fetchCalendarEvents" /\ outcome' = fetchCalendarEventsRequest(args)
    /\ UNCHANGED <<args, filterVars, listVars, writeVars, cardVars, tagVars>>

CallFetchRecentCalendarActivity ==
    /\ called = "none"
    /\ called' = "fetchRecentCalendarActivity" /\ outcome' = fetchRecentCalendarActivity(args)
    /\ UNCHANGED <<args, filterVars, listVars, writeVars, cardVars, tagVars>>

CallFetchTimelineCardsWithTags ==
    /\ called = "none"
    /\ called' = "fetchTimelineCardsWithTags" /\ outcome' = fetchTimelineCardsWithTags(args)
    /\ UNCHANGED <<args, filterVars, listVars, writeVars, cardVars, tagVars>>

EndpointNext ==
    \/ CallFetchTimelineCardsWithTags
    \/ CallFetchEmailMetadataPage
    \/ CallSearchGmailMessages
    \/ CallFetchFullEmailDetails
    \/ CallMarkEmailStarred
    \/ CallFetchCalendarEvents
    \/ CallFetchRecentCalendarActivity

(***************************************************************************)
(* Part 3b: the form handlers that validate their input                    *)
(***************************************************************************)

\* a toast shown by a handler that returns before any call
Toast(title) ==
    [kind |-> "toast", error |-> title, ok |-> FALSE, items |-> <<>>, requests |-> <<>>]

\* String.prototype.trim on the strings of the model
Trim(str) == IF str = " " THEN EmptyString ELSE str

\* the value of a date input: 0 is the empty string, a positive number a day
Days == 0..3

\* AddEditTimelineCardDialog.handleSave: the checks, then the store calls
handleSave(a) ==
    IF Trim(a.title) = EmptyString \/ a.startDate = 0
    THEN Toast("Missing Required Fields")
    ELSE IF a.endDate # 0 /\ a.startDate # 0 /\ a.endDate < a.startDate
    THEN Toast("Invalid Date Range")
    ELSE IF ~a.user THEN Toast("Authentication Error")
    ELSE Issued(<<"store">>, Return(TRUE, <<>>))

\* ComposeEmailDialog.handleSend: the check, then sendNewGmailMessage
handleSend(a) ==
    IF Trim(a.to) = EmptyString THEN Toast("Missing Recipient")
    ELSE Issued(<<"session">>,
             IF TokenThrows(a) THEN Throw("expired")
             ELSE Issued(<<"gmail">>,
                      IF a.http \in CredentialStatuses THEN Throw("expired")
                      ELSE IF a.http # "200" THEN Throw("other")
                      ELSE Return(TRUE, <<>>)))

FormInputs ==
    /\ args \in [kind : {"form"}, title : {EmptyString, " ", "T"},
                 startDate : Days, endDate : Days, to : {EmptyString, " ", "a@b"},
                 user : BOOLEAN, token : BOOLEAN, http : {"200", "401"},
                 query : {EmptyString, "q1"}]
    /\ called = "none" /\ outcome = NoCall

CallHandleSave ==
    /\ called = "none"
    /\ called' = "handleSave" /\ outcome' = handleSave(args)
    /\ UNCHANGED <<args, filterVars, listVars, writeVars, cardVars, tagVars>>

CallHandleSend ==
    /\ called = "none"
    /\ called' = "handleSend" /\ outcome' = handleSend(args)
    /\ UNCHANGED <<args, filterVars, listVars, writeVars, cardVars, tagVars>>

FormNext ==
    \/ CallHandleSave
    \/ CallHandleSend
    \/ CallSearchGmailMessages

(***************************************************************************)
(* Part 3c: the classification of recent calendar activity                 *)
(***************************************************************************)

\* a missing created / updated field; the times are milliseconds since the
\* epoch, as new Date(...).getTime() gives them
Absent == 0

CreatedWindowMs == 5000

Times == {10000, 12000, 14999, 15000, 610000}

\* a classification that looks at status and updated only
timelineEventByUpdated(event, now) ==
    IF event.status = "cancelled"
    THEN [kind |-> "event", type |-> "CALENDAR_EVENT_DELETED",
          timestamp |-> IF event.updated # Absent THEN event.updated ELSE now]
    ELSE IF event.updated # Absent
    THEN [kind |-> "event", type |-> "CALENDAR_EVENT_UPDATED", timestamp |-> event.updated]
    ELSE [kind |-> "skipped", type |-> Null, timestamp |-> Absent]

\* the callback of events.map in fetchRecentCalendarActivity; null (skipped)
\* results are filtered out
timelineEvent(event, now) ==
    IF event.status = "cancelled"
    THEN [kind |-> "event", type |-> "CALENDAR_EVENT_DELETED",
          timestamp |-> IF event.updated # Absent THEN event.updated ELSE now]
    ELSE IF /\ event.created # Absent /\ event.updated # Absent
            /\ event.updated - event.created < CreatedWindowMs
    THEN [kind |-> "event", type |-> "CALENDAR_EVENT_CREATED", timestamp |-> event.created]
    ELSE IF event.updated # Absent
    THEN [kind |-> "event", type |-> "CALENDAR_EVENT_UPDATED", timestamp |-> event.updated]
    ELSE [kind |-> "skipped", type |-> Null, timestamp |-> Absent]

EventInputs ==
    /\ args \in [kind : {"calendarEvent"}, status : {"confirmed", "tentative", "cancelled"},
                 created : {Absent, 10000, 15000, 609000}, updated : Times \cup {Absent}]
    /\ called = "none" /\ outcome = NoCall

CallTimelineEvent ==
    /\ called = "none"
    /\ \E now \in {610000, 610001} :
         /\ called' = "timelineEvent" /\ outcome' = timelineEvent(args, now)
    /\ UNCHANGED <<args, filterVars, listVars, writeVars, cardVars, tagVars>>

(***************************************************************************)
(* Part 3d: the recent-activity queries and the timeline page              *)
(***************************************************************************)

MaxLimit == 2

\* the rows of a table as events of one source, newest first
RECURSIVE SortDesc(_)
SortDesc(evs) ==
    IF evs = {} THEN <<>>
    ELSE LET newest == CHOOSE e \in evs : \A f \in evs : f.ts <= e.ts
         IN  <<newest>> \o SortDesc(evs \ {newest})

Take(q, n) == SubSeq(q, 1, IF n < Len(q) THEN n ELSE Len(q))

EventsOf(src, stamps) == {[src |-> src, ts |-> t] : t \in stamps}

\* .order(<timestamp>, { ascending: false }).limit(limit)
TopN(src, stamps, limit) == Take(SortDesc(EventsOf(src, stamps)), limit)

\* both queries are limited, then the combined list is sorted and sliced to
\* limit again
fetchRecentEmailTagActivity(a) ==
    LET additions == TopN("EMAIL_TAG_ADDED", a.additions, a.limit)
        removals == TopN("EMAIL_TAG_REMOVED", a.removals, a.limit)
        combined == SortDesc(Range(additions) \cup Range(removals))
    IN  Take(combined, a.limit)

fetchRecentCardActivity(a) == TopN("CARD", a.logs, a.limit)

\* TimelinePage.loadTimeline: the results are kept side by side
loadTimeline(a) == fetchRecentEmailTagActivity(a) \o fetchRecentCardActivity(a)

FeedInputs ==
    /\ args \in [kind : {"feed"}, limit : 1..MaxLimit, additions : SUBSET {1, 4, 5},
                 removals : SUBSET {2, 3, 6}, logs : SUBSET {1, 2, 3}]
    /\ called = "none" /\ outcome = NoCall

CallFetchRecentEmailTagActivity ==
    /\ called = "none"
    /\ called' = "fetchRecentEmailTagActivity"
    /\ outcome' = [kind |-> "feed", items |-> fetchRecentEmailTagActivity(args)]
    /\ UNCHANGED <<args, filterVars, listVars, writeVars, cardVars, tagVars>>

CallFetchRecentCardActivity ==
    /\ called = "none"
    /\ called' = "fetchRecentCardActivity"
    /\ outcome' = [kind |-> "feed", items |-> fetchRecentCardActivity(args)]
    /\ UNCHANGED <<args, filterVars, listVars, writeVars, cardVars, tagVars>>

CallLoadTimeline ==
    /\ called = "none"
    /\ called' = "loadTimeline"
    /\ outcome' = [kind |-> "feed", items |-> loadTimeline(args)]
    /\ UNCHANGED <<args, filterVars, listVars, writeVars, cardVars, tagVars>>

FeedNext ==
    \/ CallFetchRecentEmailTagActivity
    \/ CallFetchRecentCardActivity
    \/ CallLoadTimeline

(***************************************************************************)
(* Part 4: the optimistic star and tag toggles of EmailsList               *)
(***************************************************************************)

MaxWrites == 2

Entries == [starred : BOOLEAN, tags : SUBSET Tags]

NoEnded == [failed |-> FALSE, alone |-> FALSE, prior |-> [starred |-> FALSE, tags |-> {}]]

WriteInit ==
    /\ email = [cache |-> [starred |-> FALSE, tags |-> {}],
                list |-> [starred |-> FALSE, tags |-> {}]]
    /\ remote = [starred |-> FALSE, tags |-> {}]
    /\ writes = <<>>
    /\ ended = NoEnded

\* the email as a load committed it: cache, list and remote agree
WriteInputs ==
    /\ \E e \in Entries :
         /\ email = [cache |-> e, list |-> e]
         /\ remote = e
    /\ writes = <<>>
    /\ ended = NoEnded

\* setEmailCache(prev => ...) and setAllEmails(prev => ...) with the same change
SetStarredBoth(e, v) ==
    [cache |-> [e.cache EXCEPT !.starred = v], list |-> [e.list EXCEPT !.starred = v]]

SetTagsBoth(e, t) ==
    [cache |-> [e.cache EXCEPT !.tags = t], list |-> [e.list EXCEPT !.tags = t]]

RemoveAt(q, k) == SubSeq(q, 1, k - 1) \o SubSeq(q, k + 1, Len(q))

Ended(k, failed) ==
    [failed |-> failed, alone |-> Len(writes) = 1, prior |-> writes[k].prior]

\* toggleStar up to its await: newStarredState from the rendered cache entry,
\* then the optimistic update
ToggleStarOptimistic ==
    /\ Len(writes) < MaxWrites
    /\ LET newStarredState == ~email.cache.starred
       IN  /\ email' = SetStarredBoth(email, newStarredState)
           /\ writes' = Append(writes, [kind |-> "star", new |-> newStarredState,
                                        tag |-> Null, prior |-> email.cache])
    /\ ended' = NoEnded
    /\ UNCHANGED <<remote, filterVars, listVars, callVars, cardVars, tagVars>>

\* markEmailStarred returns true: the label is modified
MarkStarredOk ==
    /\ \E k \in 1..Len(writes) :
         /\ writes[k].kind = "star"
         /\ remote' = [remote EXCEPT !.starred = writes[k].new]
         /\ writes' = RemoveAt(writes, k)
         /\ ended' = Ended(k, FALSE)
    /\ UNCHANGED <<email, filterVars, listVars, callVars, cardVars, tagVars>>

\* markEmailStarred returns false: the response was not ok or the request
\* failed; the await returns and the catch block does not run
MarkStarredReturnsFalse ==
    /\ \E k \in 1..Len(writes) :
         /\ writes[k].kind = "star"
         /\ writes' = RemoveAt(writes, k)
         /\ ended' = Ended(k, TRUE)
    /\ UNCHANGED <<email, remote, filterVars, listVars, callVars, cardVars, tagVars>>

\* markEmailStarred throws (no provider token): the catch block sets starred
\* to !newStarredState
MarkStarredThrows ==
    /\ \E k \in 1..Len(writes) :
         /\ writes[k].kind = "star"
         /\ email' = SetStarredBoth(email, ~writes[k].new)
         /\ writes' = RemoveAt(writes, k)
         /\ ended' = Ended(k, TRUE)
    /\ UNCHANGED <<remote, filterVars, listVars, callVars, cardVars, tagVars>>

\* handleTagToggle up to its await
handleTagToggle ==
    /\ Len(writes) < MaxWrites
    /\ \E tagId \in Tags :
         LET emailToUpdate == email.cache
             isCurrentlyTagged == tagId \in emailToUpdate.tags
             updatedTags == IF isCurrentlyTagged THEN emailToUpdate.tags \ {tagId}
                            ELSE emailToUpdate.tags \cup {tagId}
         IN  /\ email' = SetTagsBoth(email, updatedTags)
             /\ writes' = Append(writes, [kind |-> "tag", new |-> ~isCurrentlyTagged,
                                          tag |-> tagId, prior |-> emailToUpdate])
    /\ ended' = NoEnded
    /\ UNCHANGED <<remote, filterVars, listVars, callVars, cardVars, tagVars>>

\* addTagToEmail / removeTagFromEmail returns true
TagWriteOk ==
    /\ \E k \in 1..Len(writes) :
         /\ writes[k].kind = "tag"
         /\ remote' = [remote EXCEPT !.tags = IF writes[k].new THEN @ \cup {writes[k].tag}
                                               ELSE @ \ {writes[k].tag}]
         /\ writes' = RemoveAt(writes, k)
         /\ ended' = Ended(k, FALSE)
    /\ UNCHANGED <<email, filterVars, listVars, callVars, cardVars, tagVars>>

\* addTagToEmail / removeTagFromEmail returns false: every store error and
\* every exception ends in "return false", so the catch block of
\* handleTagToggle never runs
TagWriteReturnsFalse ==
    /\ \E k \in 1..Len(writes) :
         /\ writes[k].kind = "tag"
         /\ writes' = RemoveAt(writes, k)
         /\ ended' = Ended(k, TRUE)
    /\ UNCHANGED <<email, remote, filterVars, listVars, callVars, cardVars, tagVars>>

WriteNext ==
    \/ ToggleStarOptimistic
    \/ MarkStarredOk
    \/ MarkStarredReturnsFalse
    \/ MarkStarredThrows
    \/ handleTagToggle
    \/ TagWriteOk
    \/ TagWriteReturnsFalse

(***************************************************************************)
(* Part 5: the write paths of cards and of their tag associations          *)
(***************************************************************************)

MaxCardLog == 2

\* custom_cards (exists, title), custom_card_tags (tags),
\* timeline_card_tags (timelineTags) and custom_cards_log (log)
Stores == [exists : BOOLEAN, title : {"old", "new"}, tags : SUBSET Tags,
           timelineTags : SUBSET Tags, log : {<<>>}]

NoCard == [exists |-> FALSE, title |-> "old", tags |-> {}, timelineTags |-> {},
           log |-> <<>>]

\* the activity_type a write path logs
ActivityType(op) ==
    CASE op = "createCard" -> "CREATED"
      [] op = "updateCard" -> "UPDATED"
      [] op = "deleteCard" -> "DELETED"
      [] OTHER -> "none"

NoCardOp == [op |-> "none", step |-> "none", tagIds |-> {}, before |-> NoCard,
             erred |-> FALSE]

CardInit == cardStore = NoCard /\ cardOp = NoCardOp /\ cardReport = "none"

\* a card that does not exist has no rows
CardInputs ==
    /\ cardStore \in {c \in Stores : ~c.exists => c = NoCard}
    /\ cardOp = NoCardOp
    /\ cardReport = "none"

StartCardOp(op, step, tagIds) ==
    /\ cardOp.op = "none" /\ cardReport = "none"
    /\ Len(cardStore.log) < MaxCardLog
    /\ cardOp' = [op |-> op, step |-> step, tagIds |-> tagIds, before |-> cardStore,
                  erred |-> FALSE]
    /\ cardReport' = "none"
    /\ cardStore' = cardStore

\* the write path throws
CardThrows ==
    /\ cardReport' = "failed"
    /\ cardOp' = [cardOp EXCEPT !.step = "done", !.erred = TRUE]

\* the write path returns
CardReturns ==
    /\ cardReport' = "ok"
    /\ cardOp' = [cardOp EXCEPT !.step = "done"]

\* createCard is called: supabase.auth.getUser()
createCard ==
    /\ ~cardStore.exists
    /\ \E tagIds \in SUBSET Tags : StartCardOp("createCard", "insertCard", tagIds)
    /\ UNCHANGED <<filterVars, listVars, callVars, writeVars, tagVars>>

\* 1. insert the card
createCardInsert ==
    /\ cardOp.op = "createCard" /\ cardOp.step = "insertCard"
    /\ \E createError \in BOOLEAN :
         IF createError
         THEN CardThrows /\ cardStore' = cardStore
         ELSE /\ cardStore' = [cardStore EXCEPT !.exists = TRUE, !.title = "new"]
              /\ cardOp' = [cardOp EXCEPT !.step = IF cardOp.tagIds # {} THEN "insertTags"
                                                    ELSE "log"]
              /\ cardReport' = cardReport
    /\ UNCHANGED <<filterVars, listVars, callVars, writeVars, tagVars>>

\* 2. insert the tag associations; on error the function throws and the card
\* inserted in step 1 stays
createCardInsertTags ==
    /\ cardOp.op = "createCard" /\ cardOp.step = "insertTags"
    /\ \E tagInsertError \in BOOLEAN :
         IF tagInsertError
         THEN CardThrows /\ cardStore' = cardStore
         ELSE /\ cardStore' = [cardStore EXCEPT !.tags = cardOp.tagIds]
              /\ cardOp' = [cardOp EXCEPT !.step = "log"]
              /\ cardReport' = cardReport
    /\ UNCHANGED <<filterVars, listVars, callVars, writeVars, tagVars>>

\* 3. the log insert, whose error is only printed, and 4. the return
cardLogAndReturn ==
    /\ cardOp.op \in {"createCard", "updateCard", "deleteCard"} /\ cardOp.step = "log"
    /\ CardReturns
    /\ \E logError \in BOOLEAN :
         cardStore' = IF logError THEN cardStore
                      ELSE [cardStore EXCEPT !.log = Append(@, ActivityType(cardOp.op))]
    /\ UNCHANGED <<filterVars, listVars, callVars, writeVars, tagVars>>

\* updateCard is called with a list of tag ids
updateCard ==
    /\ cardStore.exists
    /\ \E tagIds \in SUBSET Tags : StartCardOp("updateCard", "updateCard", tagIds)
    /\ UNCHANGED <<filterVars, listVars, callVars, writeVars, tagVars>>

\* 1. update title and content
updateCardUpdate ==
    /\ cardOp.op = "updateCard" /\ cardOp.step = "updateCard"
    /\ \E updateError \in BOOLEAN :
         IF updateError
         THEN CardThrows /\ cardStore' = cardStore
         ELSE /\ cardStore' = [cardStore EXCEPT !.title = "new"]
              /\ cardOp' = [cardOp EXCEPT !.step = "tags"]
              /\ cardReport' = cardReport
    /\ UNCHANGED <<filterVars, listVars, callVars, writeVars, tagVars>>

\* 2. the removals and additions; any of them may fail, and the catch block
\* only logs
updateCardTags ==
    /\ cardOp.op = "updateCard" /\ cardOp.step = "tags"
    /\ \E t \in SUBSET Tags :
         /\ (cardStore.tags \cap cardOp.tagIds) \subseteq t
         /\ t \subseteq (cardStore.tags \cup cardOp.tagIds)
         /\ cardStore' = [cardStore EXCEPT !.tags = t]
         /\ cardOp' = [cardOp EXCEPT !.step = "log",
                                     !.erred = (t # cardOp.tagIds)]
    /\ cardReport' = cardReport
    /\ UNCHANGED <<filterVars, listVars, callVars, writeVars, tagVars>>

\* deleteCard is called; 1. the card's title is read for the log
deleteCard ==
    /\ cardStore.exists
    /\ StartCardOp("deleteCard", "deleteCard", {})
    /\ UNCHANGED <<filterVars, listVars, callVars, writeVars, tagVars>>

\* 2. delete the card; its tag associations go with it
deleteCardDelete ==
    /\ cardOp.op = "deleteCard" /\ cardOp.step = "deleteCard"
    /\ \E deleteError \in BOOLEAN :
         IF deleteError
         THEN CardThrows /\ cardStore' = cardStore
         ELSE /\ cardStore' = [NoCard EXCEPT !.log = cardStore.log]
              /\ cardOp' = [cardOp EXCEPT !.step = "log"]
              /\ cardReport' = cardReport
    /\ UNCHANGED <<filterVars, listVars, callVars, writeVars, tagVars>>

\* setTagsForTimelineCard is called
setTagsForTimelineCard ==
    /\ cardStore.exists
    /\ \E tagIds \in SUBSET Tags :
         StartCardOp("setTagsForTimelineCard", "delete", tagIds)
    /\ UNCHANGED <<filterVars, listVars, callVars, writeVars, tagVars>>

\* 1. delete the existing associations
setTagsDelete ==
    /\ cardOp.op = "setTagsForTimelineCard" /\ cardOp.step = "delete"
    /\ \E deleteError \in BOOLEAN :
         IF deleteError
         THEN CardThrows /\ cardStore' = cardStore
         ELSE /\ cardStore' = [cardStore EXCEPT !.timelineTags = {}]
              /\ IF cardOp.tagIds # {}
                 THEN cardOp' = [cardOp EXCEPT !.step = "insert"] /\ cardReport' = cardReport
                 ELSE CardReturns
    /\ UNCHANGED <<filterVars, listVars, callVars, writeVars, tagVars>>

\* 2. insert the new associations; on error the function throws after the
\* delete of step 1
setTagsInsert ==
    /\ cardOp.op = "setTagsForTimelineCard" /\ cardOp.step = "insert"
    /\ \E insertError \in BOOLEAN :
         IF insertError
         THEN CardThrows /\ cardStore' = cardStore
         ELSE /\ cardStore' = [cardStore EXCEPT !.timelineTags = cardOp.tagIds]
              /\ CardReturns
    /\ UNCHANGED <<filterVars, listVars, callVars, writeVars, tagVars>>

\* the caller has seen the result; the next write can start
cardOpEnds ==
    /\ cardOp.step = "done"
    /\ cardOp' = NoCardOp /\ cardReport' = "none"
    /\ cardStore' = cardStore
    /\ UNCHANGED <<filterVars, listVars, callVars, writeVars, tagVars>>

CardNext ==
    \/ createCard
    \/ createCardInsert
    \/ createCardInsertTags
    \/ cardLogAndReturn
    \/ updateCard
    \/ updateCardUpdate
    \/ updateCardTags
    \/ deleteCard
    \/ deleteCardDelete
    \/ setTagsForTimelineCard
    \/ setTagsDelete
    \/ setTagsInsert
    \/ cardOpEnds

(***************************************************************************)
(* Part 6: the tag tables of one message                                   *)
(***************************************************************************)

MaxLog == 3

NoSidebar == [pins |-> 0, stored |-> 0, pending |-> 0, toast |-> "none"]

TagInit ==
    /\ tagStore = [tags |-> Tags, row |-> FALSE, starred |-> FALSE, emailTags |-> {},
                   log |-> <<>>, touched |-> FALSE]
    /\ sidebar = NoSidebar

TagInputs == TagInit

\* tagStore.touched records that a tag or a star write has been applied to the
\* message
\* addTagToEmail: select the emails row, insert it when missing, insert the
\* email_tags row; each store call can fail and ends the function
addTagToEmail ==
    /\ \E tagId \in tagStore.tags \ tagStore.emailTags :
       \E failsAt \in {"select", "insertEmail", "insertTag", "none"} :
         tagStore' =
            IF failsAt = "select" \/ (failsAt = "insertEmail" /\ ~tagStore.row)
            THEN tagStore
            ELSE IF failsAt = "insertTag"
            THEN [tagStore EXCEPT !.row = TRUE]
            ELSE [tagStore EXCEPT !.row = TRUE, !.emailTags = @ \cup {tagId},
                                  !.touched = TRUE]
    /\ UNCHANGED <<sidebar, filterVars, listVars, callVars, writeVars, cardVars>>

\* removeTagFromEmail: delete the email_tags row, then insert the log record;
\* an error of the log insert is only printed
removeTagFromEmail ==
    /\ Len(tagStore.log) < MaxLog
    /\ \E tagId \in tagStore.emailTags :
       \E deleteError \in BOOLEAN, logError \in BOOLEAN :
         tagStore' =
            IF deleteError THEN tagStore
            ELSE [tagStore EXCEPT !.emailTags = @ \ {tagId},
                                  !.log = IF logError THEN @ ELSE Append(@, tagId)]
    /\ UNCHANGED <<sidebar, filterVars, listVars, callVars, writeVars, cardVars>>

\* updateSupabaseEmail(userId, emailId, { is_starred }): select, then update
\* or insert
updateSupabaseEmail ==
    /\ \E starred \in BOOLEAN, updateError \in BOOLEAN :
         tagStore' = IF updateError THEN tagStore
                     ELSE [tagStore EXCEPT !.row = TRUE, !.starred = starred,
                                           !.touched = TRUE]
    /\ UNCHANGED <<sidebar, filterVars, listVars, callVars, writeVars, cardVars>>

\* deleteTag: delete the associations (an error is printed), delete the tag;
\* the rows of email_tags and removed_email_tags_log that refer to the tag
\* go with it (ON DELETE CASCADE)
deleteTag ==
    /\ \E tagId \in tagStore.tags :
       \E deleteAssociationsError \in BOOLEAN, deleteTagError \in BOOLEAN :
         tagStore' =
            IF deleteTagError
            THEN IF deleteAssociationsError THEN tagStore
                 ELSE [tagStore EXCEPT !.emailTags = @ \ {tagId}]
            ELSE [tagStore EXCEPT !.tags = @ \ {tagId},
                                  !.emailTags = @ \ {tagId},
                                  !.log = SelectSeq(@, LAMBDA t : t # tagId)]
    /\ UNCHANGED <<sidebar, filterVars, listVars, callVars, writeVars, cardVars>>

\* a tag is created again in the sidebar
insertTag ==
    /\ \E tagId \in Tags \ tagStore.tags :
         tagStore' = [tagStore EXCEPT !.tags = @ \cup {tagId}]
    /\ UNCHANGED <<sidebar, filterVars, listVars, callVars, writeVars, cardVars>>

TagNext ==
    \/ addTagToEmail
    \/ removeTagFromEmail
    \/ updateSupabaseEmail
    \/ deleteTag
    \/ insertTag

(***************************************************************************)
(* Part 7: the pin tags of the sidebar                                     *)
(***************************************************************************)

TagCap == 12

MaxInserts == 2

\* the tags are loaded, or fetchTags returned [] on an error
SidebarInputs ==
    /\ tagStore = [tags |-> Tags, row |-> FALSE, starred |-> FALSE, emailTags |-> {},
                   log |-> <<>>, touched |-> FALSE]
    /\ \E stored \in 0..TagCap, loaded \in BOOLEAN :
         sidebar = [NoSidebar EXCEPT !.stored = stored,
                                     !.pins = IF loaded THEN stored ELSE 0]

\* loadTags: setPins(fetchTags(...)), which is [] when the request failed
loadTags ==
    /\ \E fetchError \in BOOLEAN :
         sidebar' = [sidebar EXCEPT !.pins = IF fetchError THEN 0 ELSE sidebar.stored,
                                    !.toast = "none"]
    /\ UNCHANGED <<tagStore, filterVars, listVars, callVars, writeVars, cardVars>>

\* addNewTag('pin') up to the insert request: the cap is tested on the list
\* the component holds
addNewTag ==
    /\ sidebar.stored + sidebar.pending < TagCap + MaxInserts
    /\ \E newTagName \in {EmptyString, "a"} :
         sidebar' =
            IF sidebar.pins >= TagCap
            THEN [sidebar EXCEPT !.toast = "Limit Reached"]
            ELSE IF Trim(newTagName) = EmptyString
            THEN [sidebar EXCEPT !.toast = "Error"]
            ELSE [sidebar EXCEPT !.pending = @ + 1, !.toast = "none"]
    /\ UNCHANGED <<tagStore, filterVars, listVars, callVars, writeVars, cardVars>>

\* the insert into tags answers; on success setPins(prev => [...prev, newTag])
addNewTagInsert ==
    /\ sidebar.pending > 0
    /\ \E insertError \in BOOLEAN :
         sidebar' =
            IF insertError
            THEN [sidebar EXCEPT !.pending = @ - 1, !.toast = "Error"]
            ELSE [sidebar EXCEPT !.pending = @ - 1, !.stored = @ + 1, !.pins = @ + 1,
                                 !.toast = "Success"]
    /\ UNCHANGED <<tagStore, filterVars, listVars, callVars, writeVars, cardVars>>

\* handleConfirmDelete: deleteTag, and on success the tag leaves the list
handleConfirmDelete ==
    /\ sidebar.pins > 0
    /\ \E success \in BOOLEAN :
         sidebar' =
            IF success
            THEN [sidebar EXCEPT !.pins = @ - 1, !.stored = @ - 1, !.toast = "Tag Deleted"]
            ELSE [sidebar EXCEPT !.toast = "Error"]
    /\ UNCHANGED <<tagStore, filterVars, listVars, callVars, writeVars, cardVars>>

SidebarNext ==
    \/ loadTags
    \/ addNewTag
    \/ addNewTagInsert
    \/ handleConfirmDelete

Init == FilterInit /\ ListInit /\ CallInit /\ WriteInit /\ CardInit /\ TagInit

Next == ListNext

Spec == Init /\ [][Next]_vars

\* the request a load awaits is answered or rejected
LoadSettles ==
    \/ LoadListOk
    \/ LoadDetailsOk
    \/ LoadByTagsQueryOk
    \/ LoadByTagsDetailsOk
    \/ LoadSupaOk
    \/ LoadFails

\* the steps that start, supersede and end loads; the handlers of the
\* rendered rows leave isLoading and the load alone
LoadsNext ==
    \/ MountEmailsList
    \/ UnmountEmailsList
    \/ Navigate
    \/ SetActiveTab
    \/ goToNextPage
    \/ goToPrevPage
    \/ triggerRefresh
    \/ LoadListOk
    \/ LoadDetailsOk
    \/ LoadByTagsQueryOk
    \/ LoadByTagsDetailsOk
    \/ LoadSupaOk
    \/ LoadFails
    \/ StaleFails

\* an awaited request is answered or rejected in the end
SpecLoads == Init /\ [][LoadsNext]_vars /\ WF_vars(LoadSettles)

InitFilter == FilterInputs /\ ListInit /\ CallInit /\ WriteInit /\ CardInit /\ TagInit

SpecFilter == InitFilter /\ [][FilterNext]_vars

InitEndpoints == FilterInit /\ ListInit /\ EndpointInputs /\ WriteInit /\ CardInit /\ TagInit

SpecEndpoints == InitEndpoints /\ [][EndpointNext]_vars

InitWrites == FilterInit /\ ListInit /\ CallInit /\ WriteInputs /\ CardInit /\ TagInit

SpecWrites == InitWrites /\ [][WriteNext]_vars

InitForms == FilterInit /\ ListInit /\ FormInputs /\ WriteInit /\ CardInit /\ TagInit

SpecForms == InitForms /\ [][FormNext]_vars

InitActivity == FilterInit /\ ListInit /\ EventInputs /\ WriteInit /\ CardInit /\ TagInit

SpecActivity == InitActivity /\ [][CallTimelineEvent]_vars

InitFeed == FilterInit /\ ListInit /\ FeedInputs /\ WriteInit /\ CardInit /\ TagInit

SpecFeed == InitFeed /\ [][FeedNext]_vars

InitTags ==
    FilterInit /\ ListInit /\ CallInit /\ WriteInit /\ CardInit /\ TagInputs

SpecTags == InitTags /\ [][TagNext]_vars

InitSidebar ==
    FilterInit /\ ListInit /\ CallInit /\ WriteInit /\ CardInit /\ SidebarInputs

SpecSidebar == InitSidebar /\ [][SidebarNext]_vars

InitCards == FilterInit /\ ListInit /\ CallInit /\ WriteInit /\ CardInputs /\ TagInit

SpecCards == InitCards /\ [][CardNext]_vars

(***************************************************************************)
(* Properties of the tag filter functions (checked under SpecFilter)       *)
(***************************************************************************)

\* the tag ids attached to an item as the filter function sees them: the
\* join table for emails, the tags merged by the reader for calendar events
AttachedTags(i) ==
    IF fStage = "events" THEN fetchCalendarEvents(fAssoc, fTagsRead)[i] ELSE fAssoc[i]

Passing == {i \in Items : IF fMode = "any" THEN AttachedTags(i) \cap fSel # {}
                                           ELSE fSel \subseteq AttachedTags(i)}

ExampleAssoc == [i \in Items |-> CASE i = "A" -> {"t1"}
                                   [] i = "B" -> {"t1", "t2"}
                                   [] OTHER -> {}]

\* C1: for a non-empty selection S the email filter and the calendar filter
\* return an item, once, iff in ANY mode its attached tag ids meet S and in
\* ALL mode S is a subset of them; for A:{t1}, B:{t1,t2}, C:{} and S = {t1,t2}
\* ANY returns exactly {A,B} and ALL exactly {B}
C1_AnyAllPredicate ==
    (fStage \in {"emails", "events"} /\ fSel # {}) =>
        /\ Range(fOut) = Passing
        /\ Len(fOut) = Cardinality(Passing)
        /\ (fAssoc = ExampleAssoc /\ fSel = {"t1", "t2"} /\ fStage = "emails") =>
               Range(fOut) = IF fMode = "any" THEN {"A", "B"} ELSE {"B"}

C1_Witness ==
    /\ fStage = "emails" /\ fShape = "interleaved"
    /\ fAssoc = ExampleAssoc /\ fSel = {"t1", "t2"} /\ fMode = "all"
    /\ fOut = <<"B">>

\* C2: with an empty tag selection every filter function (emails, calendar
\* events, project cards) returns the input list unchanged, never an empty list
C2_EmptySelectionPassesAll ==
    (fStage \in {"emails", "events", "cards"} /\ fSel = {}) => fOut = ItemOrder

\* C3: in ALL mode an item passes iff the tag ids of all its matching
\* association rows together cover the selection, also when its rows arrive
\* as separate rows interleaved with rows of other items
C3_AllModeGroupsRows ==
    (fStage \in {"emails", "cards"} /\ fMode = "all" /\ fSel # {}) =>
        Range(fOut) = {i \in Items : fSel \subseteq fAssoc[i]}

(***************************************************************************)
(* Properties of the EmailsList component (checked under Spec)             *)
(***************************************************************************)

\* the state of the component that the list, the banner and the controls show
shown == <<allEmails, emailCache, pageToken, nextPageToken, prevPageTokens,
           error, isLoading, selectedEmails, selectAll>>

\* a step in which a superseded load ends while the list stays mounted
SupersededLoadEnds ==
    route = "emails" /\ route' = "emails" /\ StaleCount(stale') < StaleCount(stale)

\* a step in which the load in flight applies its outcome
LoadCommits == load.stage = "supa" /\ load'.stage = "none" /\ route' = "emails"

\* a step in which the load in flight hands ids to fetchFullEmailDetails
DetailFetchIssued ==
    /\ load.stage \notin {"details", "byTagsDetails"}
    /\ load'.stage \in {"details", "byTagsDetails"}

\* C4: a load that was superseded writes nothing afterwards: neither items,
\* cache, cursors nor error or loading flag, whether it succeeds or fails
C4_SupersededLoadWritesNothing == [][SupersededLoadEnds => UNCHANGED shown]_vars

\* C5: the commit of a load loses no cache update made since the load read the
\* cache: an entry the load did not build itself is the same after the commit
C5_CommitKeepsConcurrentUpdates ==
    [][LoadCommits => \A i \in Items \ Written(load) : emailCache'[i] = emailCache[i]]_vars

\* C6: in every view mode a load issues no detail fetch for an id in the cache
C6_NoDetailFetchForCachedId ==
    [][DetailFetchIssued => Requested(load') \cap CacheKeys(emailCache) = {}]_vars

\* C7: when page token, legacy tag filter, search query or multi-tag parameter
\* changed, the selection is empty and select-all false once the load for the
\* new state has run
C7_ChangeClearsSelection ==
    (last.op = "commit" /\ last.changed) => (selectedEmails = {} /\ ~selectAll)

\* C8: a load re-run with the same page token, legacy tag filter, search query
\* and multi-tag parameter leaves the selection as it is
C8_SameStateRefreshKeepsSelection ==
    [][(LoadCommits /\ ~load.changed) => selectedEmails' = selectedEmails]_vars

C8_Witness ==
    /\ last.op = "commit" /\ ~last.changed /\ last.refresh
    /\ selectedEmails # {}

\* C9: back in the paged view after a detour that began on a non-initial page,
\* the load asks for the first page (page token null)
C9_ReturnShowsFirstPage ==
    last.op = "return" =>
        /\ ViewOf(url) = "paged" /\ pageToken = Null
        /\ load.stage = "list" /\ load.view = "paged" /\ Falsy(load.pageToken)

C9_Witness ==
    /\ last.op = "return"
    /\ load.stage = "list" /\ load.view = "paged" /\ load.pageToken = Null

\* C10: in a non-paged view (search, legacy tag, multi-tag) the forward cursor
\* is null and the stack of prior cursors is empty, from entry on
C10_NonPagedHasNoCursors ==
    (route = "emails" /\ ViewOf(url) # "paged") =>
        (nextPageToken = Null /\ prevPageTokens = <<>>)

C10_Witness ==
    /\ route = "emails" /\ ViewOf(url) = "search" /\ abandoned
    /\ nextPageToken = Null /\ prevPageTokens = <<>>

Received401(name) ==
    /\ args.token
    /\ CASE name = "fetchFullEmailDetails" ->
                \E k \in 1..Len(args.ids) : args.detail[args.ids[k]] \in CredentialStatuses
         [] name = "searchGmailMessages" ->
                args.query # EmptyString /\ args.http \in CredentialStatuses
         [] name = "fetchCalendarEvents" ->
                args.userId /\ args.http \in CredentialStatuses
         [] OTHER -> args.http \in CredentialStatuses

\* C12: a call of any Gmail or Calendar endpoint wrapper that receives 401 or
\* 403 throws the token-expired error to its caller
C12_AuthFailureAlwaysThrowsExpired ==
    (called # "none" /\ Received401(called)) =>
        (outcome.kind = "throws" /\ outcome.error = "expired")

\* a step in which a catch block of loadData sets the banner to err
Surfaces(err) == route = "emails" /\ error # err /\ error' = err

PageListFetchFails ==
    /\ route = "emails" /\ load.stage = "list" /\ load.view = "paged"
    /\ last'.op = "listFail"

\* C14: a page-list fetch answered with 401 throws exactly the token-expired
\* error, and the load that fails on its page-list fetch writes nothing to the
\* item cache: the cache after the failure equals the cache before it
C14_ListFailureKeepsCache ==
    [][PageListFetchFails =>
         /\ \A a \in [kind : {"endpoint"}, token : {TRUE}, userId : BOOLEAN,
                      http : {"401"}, storeError : BOOLEAN, query : {"q1"}, ids : {<<>>},
                      detail : {[i \in Items |-> "200"]}] :
                /\ fetchEmailMetadataPage(a).kind = "throws"
                /\ fetchEmailMetadataPage(a).error = "expired"
         /\ error' \in {"expired", "other"}
         /\ emailCache' = emailCache]_vars

C14_Witness ==
    /\ last.op = "listFail" /\ route = "auth" /\ error = "expired"
    /\ CacheKeys(emailCache) # {}

\* the ids of a list of emails, in order
IdSeq(es) == [k \in 1..Len(es) |-> es[k].id]

\* C15: the merge is total: the list a load commits holds every message id the
\* page-list fetch returned, once each and in the order of the listing
C15_MergeIsTotal ==
    [][(LoadCommits /\ load.view = "paged") => IdSeq(allEmails') = load.ids]_vars

\* the readers: the functions that fetch a list of emails, events or cards
Readers == {"fetchEmailMetadataPage", "fetchCalendarEvents", "fetchTimelineCardsWithTags"}

\* the list fetch of the reader failed: no credential, a response that is not
\* ok, or an error of the store
PrimaryFetchFailed(name) ==
    IF name = "fetchTimelineCardsWithTags" THEN args.userId /\ args.storeError
    ELSE ~args.token \/ args.http # "200"

\* C16: a reader whose list fetch fails throws to its caller and returns no list
C16_FailedListFetchFailsTheRead ==
    (called \in Readers /\ PrimaryFetchFailed(called)) => outcome.kind = "throws"

(***************************************************************************)
(* Properties of the optimistic toggles (checked under SpecWrites)         *)
(***************************************************************************)

\* C17: after the remote write of a toggle has failed, with no other toggle
\* of the email in flight, the starred flag and the tag set of the email in
\* the cache and in the list are the ones it had before the toggle
C17_FailedToggleIsRolledBack ==
    (ended.failed /\ ended.alone) =>
        (email.cache = ended.prior /\ email.list = ended.prior)

(***************************************************************************)
(* Properties of the card write paths (checked under SpecCards)            *)
(***************************************************************************)

\* C18: a write path in which a store call failed reports failure, and a
\* write path that reports failure leaves the store as it was when it started
C18_FailedWriteCommitsNothing ==
    /\ (cardReport = "ok" => ~cardOp.erred)
    /\ (cardReport = "failed" => cardStore = cardOp.before)

\* C23: a create, update or delete of a card that returns to its caller has
\* appended one entry of the matching activity type to the card activity
\* log, and no step changes or removes an entry of the log
C23_CardActivityIsLogged ==
    [][/\ (/\ cardOp.step # "done" /\ cardOp'.step = "done" /\ cardReport' = "ok"
            /\ cardOp.op \in {"createCard", "updateCard", "deleteCard"})
          => cardStore'.log = Append(cardOp.before.log, ActivityType(cardOp.op))
       /\ Len(cardStore'.log) >= Len(cardStore.log)
       /\ SubSeq(cardStore'.log, 1, Len(cardStore.log)) = cardStore.log]_vars

(***************************************************************************)
(* Properties of the validating handlers (checked under SpecForms)         *)
(***************************************************************************)

\* the input of the call fails the validation of the function called
InvalidInput(name) ==
    CASE name = "handleSave" ->
            \/ Trim(args.title) = EmptyString
            \/ args.startDate = 0
            \/ (args.endDate # 0 /\ args.endDate < args.startDate)
      [] name = "handleSend" -> Trim(args.to) = EmptyString
      [] name = "searchGmailMessages" -> args.query = EmptyString
      [] OTHER -> FALSE

\* C19: a call with an invalid input contacts no service: not the store, not
\* the session provider, not Gmail, not Calendar
C19_InvalidInputIssuesNoRequest ==
    (called # "none" /\ InvalidInput(called)) => outcome.requests = <<>>

(***************************************************************************)
(* Properties of the activity classification (checked under SpecActivity)  *)
(***************************************************************************)

WithinCap(src, stamps) == Range(TopN(src, stamps, args.limit))

\* C21: the limit is applied to each source on its own: every tag-attach
\* event, tag-detach event and card log entry that is among the newest
\* `limit` of its source is in the data the timeline page holds
C21_LimitIsPerSource ==
    called = "loadTimeline" =>
        /\ WithinCap("EMAIL_TAG_ADDED", args.additions) \subseteq Range(outcome.items)
        /\ WithinCap("EMAIL_TAG_REMOVED", args.removals) \subseteq Range(outcome.items)
        /\ WithinCap("CARD", args.logs) \subseteq Range(outcome.items)

(***************************************************************************)
(* Properties of the tag tables (checked under SpecTags)                   *)
(***************************************************************************)

\* C22: every tag association of the message has an emails row, and the row
\* is created only by a step that applies a tag or a star to the message
C22_RowOnlyForTouchedMessage ==
    /\ tagStore.emailTags # {} => tagStore.row
    /\ tagStore.row => tagStore.touched

\* C24: a step that detaches a tag from the message appends one record for
\* that tag to the removed-tag log, and no step removes a record from the log
C24_RemovedTagLogIsAppendOnly ==
    [][/\ \A t \in tagStore.emailTags \ tagStore'.emailTags :
             /\ Len(tagStore'.log) = Len(tagStore.log) + 1
             /\ tagStore'.log[Len(tagStore'.log)] = t
       /\ Len(tagStore'.log) >= Len(tagStore.log)
       /\ SubSeq(tagStore'.log, 1, Len(tagStore.log)) = tagStore.log]_vars

(***************************************************************************)
(* Properties of the sidebar's tags (checked under SpecSidebar)            *)
(***************************************************************************)

\* C25: the store never holds more than 12 pin tags, and a request to create
\* a pin tag while 12 are stored sends no insert
C25_AtMostTwelveTags ==
    /\ [](sidebar.stored <= TagCap)
    /\ [][sidebar.stored >= TagCap => sidebar'.pending <= sidebar.pending]_vars

(***************************************************************************)
(* Properties of paging in the EmailsList component (checked under Spec)   *)
(***************************************************************************)

\* C26: in the paged view, whenever the page token is null, undefined or
\* empty, the stack of prior cursors is empty
C26_FirstPageHasNoPrevious ==
    (Mounted /\ ViewOf(url) = "paged" /\ Falsy(pageToken)) => prevPageTokens = <<>>

\* the page tokens the listing of a tab hands out
TokensIssuedFor(tab) ==
    LET listing(tok) == IF tab = "important" THEN ImportantListing(tok)
                        ELSE StandardListing(tok)
    IN  {listing(tok).nextPageToken : tok \in {Undefined, "p2"}} \ {Undefined}

\* C27: the page token a load of the paged view sends to the listing of its
\* tab is absent or was issued by that listing
C27_TokenGoesToItsListing ==
    (Live /\ load.view = "paged" /\ load.stage = "list" /\ ~Falsy(load.pageToken))
        => load.pageToken \in TokensIssuedFor(load.tab)

\* C29: every selected id belongs to the displayed (tab-filtered) list, and
\* selectAll is true iff that list is non-empty and all of it is selected
C29_SelectionWithinDisplayedList ==
    Mounted =>
        LET displayedIds == IdsOf(filteredEmails(allEmails, activeTab))
        IN  /\ selectedEmails \subseteq displayedIds
            /\ selectAll <=> (displayedIds # {} /\ displayedIds \subseteq selectedEmails)

\* the page of the standard listing a page token asks for
PageNumber(tok) == IF Falsy(tok) THEN 1 ELSE 2

\* C30: in the paged view the depth of the stack of prior cursors is the
\* number of forward steps not yet undone (the page number less one), and a
\* step that pops the stack asks for the page before the one it leaves
C30_PagingIsReversible ==
    /\ []((Mounted /\ ViewOf(url) = "paged")
            => Len(prevPageTokens) = PageNumber(pageToken) - 1)
    /\ [][(/\ Mounted /\ Mounted' /\ ViewOf(url) = "paged" /\ ViewOf(url') = "paged"
            /\ Len(prevPageTokens') = Len(prevPageTokens) - 1
            /\ pageToken' # pageToken)
           => PageNumber(pageToken') = PageNumber(pageToken) - 1]_vars

(***************************************************************************)
(* Liveness of the loading flag (checked under SpecLoads)                  *)
(***************************************************************************)

\* C28: isLoading is set only while a load is in flight, and unless the URL
\* changes again and again while a load is in flight, isLoading is false
\* again after every load
C28_LoadingFlagIsCleared ==
    /\ [](isLoading => load.stage # "none")
    /\ ([]<>(~isLoading) \/ []<><<Navigate>>_vars)

\* a load has completed and the list is shown
C28_Witness ==
    Mounted /\ ~isLoading /\ last.op = "commit" /\ allEmails # <<>>

====
